---- MODULE Spec2Model ----
(***************************************************************************)
(* A model of linera-service/src/grpc_proxy.rs: the gRPC proxy that        *)
(* extracts the chain id of an inbound request, picks the shard of that    *)
(* chain, takes a client for the shard from the connection pool of the     *)
(* interface the request arrived on, forwards the request and relays the   *)
(* shard's answer.                                                         *)
(*                                                                         *)
(* One process per inbound call; a call's steps are the pieces of the      *)
(* proxy! macro between two suspension points (.await).                    *)
(***************************************************************************)
EXTENDS Naturals, Sequences, FiniteSets

\* Number of inbound calls the proxy receives, all of which may be in
\* flight at once.
MaxCalls == 2

Calls == 1..MaxCalls

\* Chain ids carried by requests, and the shards of the internal network.
ChainIds == {"c1", "c2"}
ShardA == [host |-> "shardA", port |-> "p1"]
ShardB == [host |-> "shardB", port |-> "p1"]
Shards == {ShardA, ShardB}

\* Option<T>: None, or Some(x); unwrap(Some(x)) = x.
None == <<>>
Some(x) == <<x>>
unwrap(o) == o[1]

----------------------------------------------------------------------------
(* Requests.  A request is [type, content]; the content is what the wire   *)
(* carried: bytes that decode under one schema only, or bytes that decode  *)
(* under none.  Every type comes with bytes that do not decode; proposals  *)
(* and queries come for both chains, certificates for c1 and cross-chain   *)
(* requests for c2.                                                        *)

Enc(schema, chain) == [schema |-> schema, chain |-> Some(chain)]
Garbage == [schema |-> "garbage", chain |-> None]
Absent == [schema |-> "absent", chain |-> None]

BlockProposal == {[type |-> "BlockProposal", content |-> b] :
                    b \in {Garbage} \cup {Enc("BlockAndRound", k) : k \in ChainIds}}
Certificate == {[type |-> "Certificate", content |-> b] :
                    b \in {Garbage, Enc("Value", "c1")}}
ChainInfoQuery == {[type |-> "ChainInfoQuery", content |-> b] :
                    b \in {Absent, Garbage} \cup {Enc("ChainId", k) : k \in ChainIds}}
CrossChainRequest == {[type |-> "CrossChainRequest", content |-> b] :
                    b \in {Garbage, Enc("CrossChainRequest", "c2")}}

\* bcs::from_bytes::<T> and the TryFrom conversions: Ok with the decoded
\* record's chain when the bytes are an encoding under that schema.
from_bytes(schema, bytes) ==
    IF bytes.schema = schema THEN [ok |-> TRUE, chain |-> bytes.chain]
                             ELSE [ok |-> FALSE, chain |-> None]

\* impl Proxyable for BlockProposal
chain_id_BlockProposal(req) ==
    LET d == from_bytes("BlockAndRound", req.content)
    IN  IF d.ok THEN d.chain ELSE None

\* impl Proxyable for Certificate
chain_id_Certificate(req) ==
    LET d == from_bytes("Value", req.content)
    IN  IF d.ok THEN d.chain ELSE None

\* A chain_id that reads a default chain out of a query without one.
chain_id_ChainInfoQuery_default(req) ==
    IF req.content.chain = None THEN Some("c1") ELSE req.content.chain

\* impl Proxyable for ChainInfoQuery: self.chain_id.clone()?.try_into().ok()
chain_id_ChainInfoQuery(req) ==
    IF req.content = Absent THEN None
    ELSE LET d == from_bytes("ChainId", req.content)
         IN  IF d.ok THEN d.chain ELSE None

\* impl Proxyable for CrossChainRequest
chain_id_CrossChainRequest(req) ==
    LET d == from_bytes("CrossChainRequest", req.content)
    IN  IF d.ok THEN d.chain ELSE None

\* Proxyable::chain_id, dispatched on the request's type.
chain_id(req) ==
    CASE req.type = "BlockProposal" -> chain_id_BlockProposal(req)
      [] req.type = "Certificate" -> chain_id_Certificate(req)
      [] req.type = "ChainInfoQuery" -> chain_id_ChainInfoQuery(req)
      [] req.type = "CrossChainRequest" -> chain_id_CrossChainRequest(req)

----------------------------------------------------------------------------
(* The two service interfaces and their handlers.                          *)

Ifaces == {"worker", "node"}

\* impl ValidatorWorker for GrpcProxy
ValidatorWorker ==
    [handle_block_proposal |-> BlockProposal,
     handle_certificate |-> Certificate,
     handle_chain_info_query |-> ChainInfoQuery,
     handle_cross_chain_request |-> CrossChainRequest]

\* impl ValidatorNode for GrpcProxy
ValidatorNode ==
    [handle_block_proposal |-> BlockProposal,
     handle_certificate |-> Certificate,
     handle_chain_info_query |-> ChainInfoQuery]

Service(iface) == IF iface = "worker" THEN ValidatorWorker ELSE ValidatorNode

----------------------------------------------------------------------------
(* Results.  A handler returns Result<Response<T>, Status>.                *)

Status(code, message) == [tag |-> "Err", code |-> code, message |-> message]
Response(body) == [tag |-> "Ok", code |-> "Ok", message |-> body]

\* A not_found that is of another class.
Status_unavailable == Status("Unavailable", "could not find shard for message")

\* Status::not_found("could not find shard for message")
Status_not_found == Status("NotFound", "could not find shard for message")
\* Status::internal("could not connect to shard")
Status_internal == Status("Internal", "could not connect to shard")

\* What a shard may answer to a forwarded call: a response, or a Status of
\* its own.  The client returns whatever Status the server sent, of any code
\* and message, not_found included.
ShardResults ==
    {Response("chain info"),
     Status("NotFound", "could not find shard for message")}

----------------------------------------------------------------------------
(* The shard map and the connection pools.                                 *)

\* ShardConfig::http_address
http_address(shard) == <<"http", shard.host, shard.port>>

Addresses == {http_address(s) : s \in Shards}

\* The shard map the proxy is built with: every chain has a shard.
ShardMap == [chain \in ChainIds |-> IF chain = "c1" THEN ShardA ELSE ShardB]

\* A new that gives both interfaces the same pool.
newShared ==
    [node_connection_pool |-> "pool1", worker_connection_pool |-> "pool1"]

\* GrpcProxy::new: the two pools are two separate ConnectionPool::new().
new ==
    [node_connection_pool |-> "pool1", worker_connection_pool |-> "pool2"]

PoolIds == {"pool1", "pool2"}

\* ConnectionPool::new(): no entry, no creation under way.
EmptyPool == [entries |-> [a \in Addresses |-> None], creating |-> {}]

VARIABLES
    internal_config,   \* GrpcProxy.internal_config: chain id -> ShardConfig
    pools,             \* the content of each ConnectionPool
    established,       \* connections made so far, per interface and address
    pc,                \* where each call is in proxy!
    inbound,           \* the call as received: interface, handler, request
    shard,             \* the shard proxy! resolved for the call
    client,            \* the client proxy! got from the pool
    result,            \* what the call returned to its caller
    lookups,           \* number of times the call asked a pool for a client
    attempts,          \* number of connections the call started to create
    outbound,          \* the outbound calls issued for the call, in order
    answered           \* what the shard answered to the call's forward

vars == <<internal_config, pools, established, pc, inbound, shard,
          client, result, lookups, attempts, outbound, answered>>

----------------------------------------------------------------------------
(* Resolution.                                                             *)

\* ValidatorInternalNetworkConfig::get_shard_for: the shard of a chain.
get_shard_for(chain) == internal_config[chain]

\* A shard_for that takes the first shard whatever the chain.
shard_for_first(req) ==
    IF chain_id(req) = None THEN None ELSE Some(ShardA)

\* A shard_for that balances: the shard with no connection yet, if any.
shard_for_balanced(req) ==
    IF chain_id(req) = None THEN None
    ELSE IF established["worker"][<<"http", "shardA", "p1">>]
             + established["node"][<<"http", "shardA", "p1">>] = 0
         THEN Some(ShardA) ELSE Some(ShardB)

\* A shard_for over a shard map that has no shard for chain c2.
shard_for_partial(req) ==
    IF chain_id(req) = None \/ chain_id(req) = Some("c2") THEN None
    ELSE Some(get_shard_for(unwrap(chain_id(req))))

\* A shard_for that resolves a request without a chain id as well.
shard_for_unchecked(req) ==
    IF chain_id(req) = None THEN Some(ShardA)
    ELSE Some(get_shard_for(unwrap(chain_id(req))))

\* GrpcProxy::shard_for: Some(get_shard_for(proxyable.chain_id()?).clone())
shard_for(req) ==
    LET chain == chain_id(req)
    IN  IF chain = None THEN None ELSE Some(get_shard_for(unwrap(chain)))

----------------------------------------------------------------------------
(* ConnectionPool::cloned_client_for_address.  A lookup that finds an      *)
(* entry returns a clone of it.  A lookup that finds none creates the      *)
(* connection, one creation at a time per address: the first caller marks  *)
(* the address as being created and connects, the others wait.  A failed   *)
(* creation stores nothing.  stage is where the caller is: "lookup" when   *)
(* it enters, "connecting" when it is the one creating; accepted is        *)
(* whether the shard accepts the connection.                               *)

Total(address) == established["worker"][address] + established["node"][address]

\* Channel: a new connection to address, distinct from every earlier one.
Connect(address) == [address |-> address, serial |-> Total(address) + 1]

\* What a step of the lookup gives: "Ok" with the client, "Err", "Pending"
\* (the caller now creates the connection) or "Wait" (another caller does).
Step(outcome, value, pool) == [outcome |-> outcome, value |-> value, pool |-> pool]

\* A pool that creates one connection at a time: a lookup waits while any
\* address is being connected to.
cloned_client_for_address_one_at_a_time(pool, address, stage, accepted) ==
    IF stage = "lookup"
    THEN IF pool.entries[address] # None
         THEN Step("Ok", pool.entries[address], pool)
         ELSE IF pool.creating # {}
         THEN Step("Wait", None, pool)
         ELSE Step("Pending", None, [pool EXCEPT !.creating = @ \cup {address}])
    ELSE IF accepted
         THEN Step("Ok", Some(Connect(address)),
                   [entries |-> [pool.entries EXCEPT ![address] = Some(Connect(address))],
                    creating |-> pool.creating \ {address}])
         ELSE Step("Err", None, [pool EXCEPT !.creating = @ \ {address}])

\* A pool that keeps a handle for a connection that failed.
cloned_client_for_address_keep_failed(pool, address, stage, accepted) ==
    IF stage = "lookup"
    THEN IF pool.entries[address] # None
         THEN Step("Ok", pool.entries[address], pool)
         ELSE IF address \in pool.creating
         THEN Step("Wait", None, pool)
         ELSE Step("Pending", None, [pool EXCEPT !.creating = @ \cup {address}])
    ELSE IF accepted
         THEN Step("Ok", Some(Connect(address)),
                   [entries |-> [pool.entries EXCEPT ![address] = Some(Connect(address))],
                    creating |-> pool.creating \ {address}])
         ELSE Step("Err", None,
                   [entries |-> [pool.entries EXCEPT ![address] = Some(Connect(address))],
                    creating |-> pool.creating \ {address}])

cloned_client_for_address(pool, address, stage, accepted) ==
    IF stage = "lookup"
    THEN IF pool.entries[address] # None
         THEN Step("Ok", pool.entries[address], pool)
         ELSE IF address \in pool.creating
         THEN Step("Wait", None, pool)
         ELSE Step("Pending", None, [pool EXCEPT !.creating = @ \cup {address}])
    ELSE IF accepted
         THEN Step("Ok", Some(Connect(address)),
                   [entries |-> [pool.entries EXCEPT ![address] = Some(Connect(address))],
                    creating |-> pool.creating \ {address}])
         ELSE Step("Err", None, [pool EXCEPT !.creating = @ \ {address}])

\* The pool a lookup was made on, with what the lookup returned.
On(poolId, r) ==
    [poolId |-> poolId, outcome |-> r.outcome, value |-> r.value, pool |-> r.pool]

\* A worker_client_for_shard that looks in a pool of its own, made for the
\* call, and so never finds a connection to reuse.
worker_client_for_shard_fresh(sh, stage, accepted) ==
    On(new.worker_connection_pool,
       [cloned_client_for_address(EmptyPool, http_address(sh), stage, accepted)
           EXCEPT !.pool = pools[new.worker_connection_pool]])

\* A worker_client_for_shard that asks the node pool.
worker_client_for_shard_node(sh, stage, accepted) ==
    On(new.node_connection_pool,
       cloned_client_for_address(pools[new.node_connection_pool],
                                 http_address(sh), stage, accepted))

\* GrpcProxy::worker_client_for_shard
worker_client_for_shard(sh, stage, accepted) ==
    On(new.worker_connection_pool,
       cloned_client_for_address(pools[new.worker_connection_pool],
                                 http_address(sh), stage, accepted))

\* GrpcProxy::node_client_for_shard
node_client_for_shard(sh, stage, accepted) ==
    On(new.node_connection_pool,
       cloned_client_for_address(pools[new.node_connection_pool],
                                 http_address(sh), stage, accepted))

\* The $client argument each impl passes to proxy!.
client_for_shard(iface, sh, stage, accepted) ==
    IF iface = "worker" THEN worker_client_for_shard(sh, stage, accepted)
                        ELSE node_client_for_shard(sh, stage, accepted)

----------------------------------------------------------------------------
(* proxy!                                                                  *)

Init ==
    /\ internal_config = ShardMap
    /\ pools = [p \in PoolIds |-> EmptyPool]
    /\ established = [i \in Ifaces |-> [a \in Addresses |-> 0]]
    /\ pc = [c \in Calls |-> "idle"]
    /\ inbound = [c \in Calls |-> None]
    /\ shard = [c \in Calls |-> None]
    /\ client = [c \in Calls |-> None]
    /\ result = [c \in Calls |-> None]
    /\ lookups = [c \in Calls |-> 0]
    /\ attempts = [c \in Calls |-> 0]
    /\ outbound = [c \in Calls |-> <<>>]
    /\ answered = [c \in Calls |-> None]

\* A map_err that reports a failed connection as not_found.
map_err_not_found(e) == Status("NotFound", "could not connect to shard")

\* .map_err(|_| Status::internal("could not connect to shard"))
map_err(e) == Status_internal

\* A handler that looks for a client again when the connection failed.
OnConnectErrorRetry(c) ==
    /\ result' = result
    /\ pc' = [pc EXCEPT ![c] = "lookup"]

\* The ? after map_err: the handler returns the error.
OnConnectError(c) ==
    /\ result' = [result EXCEPT ![c] = Some(map_err("ConnectError"))]
    /\ pc' = [pc EXCEPT ![c] = "done"]

\* A forward that always calls the chain info query method.
Forward_chain_info(call, cl) ==
    [address |-> cl.address, handler |-> "handle_chain_info_query",
     request |-> call.request]

\* client.$handler(inner): the outbound call, on the client's connection.
Forward(call, cl) ==
    [address |-> cl.address, handler |-> call.handler, request |-> call.request]

\* $self.$client(&shard).await, then the forward on the client it gave.
\* The caller suspends where the pool makes it wait: for another caller's
\* creation ("lookup") or for its own ("connecting").
AwaitClient(c, call, sh, stage, accepted) ==
    LET r == client_for_shard(call.iface, sh, stage, accepted)
    IN  /\ pools' = [pools EXCEPT ![r.poolId] = r.pool]
        /\ established' =
              IF stage = "connecting" /\ r.outcome = "Ok"
              THEN [established EXCEPT ![call.iface][http_address(sh)] = @ + 1]
              ELSE established
        /\ attempts' = [attempts EXCEPT ![c] = IF r.outcome = "Pending" THEN @ + 1 ELSE @]
        /\ CASE r.outcome = "Wait" ->
                  /\ pc' = [pc EXCEPT ![c] = "lookup"]
                  /\ UNCHANGED <<client, result, outbound>>
             [] r.outcome = "Pending" ->
                  /\ pc' = [pc EXCEPT ![c] = "connecting"]
                  /\ UNCHANGED <<client, result, outbound>>
             [] r.outcome = "Err" ->
                  /\ OnConnectError(c)
                  /\ UNCHANGED <<client, outbound>>
             [] r.outcome = "Ok" ->
                  /\ client' = [client EXCEPT ![c] = r.value]
                  /\ outbound' = [outbound EXCEPT ![c] =
                                     Append(@, Forward(call, unwrap(r.value)))]
                  /\ pc' = [pc EXCEPT ![c] = "awaiting"]
                  /\ result' = result

\* A handler is called with a request and runs to its first suspension:
\* shard_for(&inner), .ok_or(Status::not_found(..))? which returns when
\* there is no shard, then the pool lookup.
Proxy_Start(c, iface, handler, req) ==
    LET call == [iface |-> iface, handler |-> handler, request |-> req]
    IN  /\ pc[c] = "idle"
        /\ inbound' = [inbound EXCEPT ![c] = Some(call)]
        /\ IF shard_for(req) = None
           THEN /\ result' = [result EXCEPT ![c] = Some(Status_not_found)]
                /\ pc' = [pc EXCEPT ![c] = "done"]
                /\ UNCHANGED <<shard, pools, established, client, lookups,
                               attempts, outbound>>
           ELSE /\ shard' = [shard EXCEPT ![c] = shard_for(req)]
                /\ lookups' = [lookups EXCEPT ![c] = @ + 1]
                /\ AwaitClient(c, call, unwrap(shard_for(req)), "lookup", FALSE)
        /\ UNCHANGED <<internal_config, answered>>

\* A pool that resumes the caller that creates a connection, and never wakes
\* one that waited for another's creation.
Proxy_ClientNoWake(c, accepted) ==
    /\ pc[c] = "connecting"
    /\ AwaitClient(c, unwrap(inbound[c]), unwrap(shard[c]), pc[c], accepted)
    /\ UNCHANGED <<internal_config, inbound, shard, lookups, answered>>

\* The pool resumes a suspended caller: one that waited for another's
\* creation looks again, one that was creating has connected or failed to.
Proxy_Client(c, accepted) ==
    /\ pc[c] \in {"lookup", "connecting"}
    /\ pc[c] = "lookup" => ~accepted
    /\ client_for_shard(unwrap(inbound[c]).iface, unwrap(shard[c]), pc[c],
                        accepted).outcome # "Wait"
    /\ AwaitClient(c, unwrap(inbound[c]), unwrap(shard[c]), pc[c], accepted)
    /\ UNCHANGED <<internal_config, inbound, shard, lookups, answered>>

\* A relay that turns a shard's error into the proxy's own.
RelayMapped(answer) == IF answer.tag = "Err" THEN Status_internal ELSE answer

\* The value of client.$handler(inner).await is the value of the handler.
Relay(answer) == answer

\* A relay that takes the answers of one connection in the order of the
\* calls: a forward waits for the earlier ones on the same client.
Proxy_RelayInOrder(c, answer) ==
    /\ pc[c] = "awaiting"
    /\ \A d \in Calls : d < c => ~(pc[d] = "awaiting" /\ client[d] = client[c])
    /\ answered' = [answered EXCEPT ![c] = Some(answer)]
    /\ result' = [result EXCEPT ![c] = Some(answer)]
    /\ pc' = [pc EXCEPT ![c] = "done"]
    /\ UNCHANGED <<internal_config, pools, established, inbound,
                   shard, client, lookups, attempts, outbound>>

\* The shard answers the forward, and the handler returns.
Proxy_Relay(c, answer) ==
    /\ pc[c] = "awaiting"
    /\ answered' = [answered EXCEPT ![c] = Some(answer)]
    /\ result' = [result EXCEPT ![c] = Some(Relay(answer))]
    /\ pc' = [pc EXCEPT ![c] = "done"]
    /\ UNCHANGED <<internal_config, pools, established, inbound,
                   shard, client, lookups, attempts, outbound>>

Next ==
    \/ \E c \in Calls, iface \in Ifaces :
          \E handler \in DOMAIN Service(iface) :
             \E req \in Service(iface)[handler] :
                Proxy_Start(c, iface, handler, req)
    \/ \E c \in Calls, accepted \in BOOLEAN : Proxy_Client(c, accepted)
    \/ \E c \in Calls, answer \in ShardResults : Proxy_Relay(c, answer)

Spec == Init /\ [][Next]_vars

\* Fair scheduling, with connection attempts that end and shards that
\* answer: a caller the pool can resume is resumed, and a forward in flight
\* is answered.
Fairness ==
    \A c \in Calls :
       /\ WF_vars(\E accepted \in BOOLEAN : Proxy_Client(c, accepted))
       /\ WF_vars(\E answer \in ShardResults : Proxy_Relay(c, answer))

FairSpec == Init /\ [][Next]_vars /\ Fairness

\* An abandoning that tears down the connection the call was using.
AbandonTeardown(c) ==
    LET call == unwrap(inbound[c])
        r == client_for_shard(call.iface, unwrap(shard[c]), "connecting", FALSE)
    IN  /\ pc[c] \in {"lookup", "connecting", "awaiting"}
        /\ pc' = [pc EXCEPT ![c] = "abandoned"]
        /\ pools' = [pools EXCEPT ![r.poolId] =
                        [entries |-> [@.entries EXCEPT
                                         ![http_address(unwrap(shard[c]))] = None],
                         creating |-> r.pool.creating]]
        /\ UNCHANGED <<internal_config, established, inbound, shard, client,
                       result, lookups, attempts, outbound, answered>>

\* The originator abandons its call: the handler's future is dropped at the
\* await it is suspended on and never returns.  A connection it was
\* creating is dropped with it, which leaves the pool as a failed creation
\* does; a connection it was using stays in the pool.
Abandon(c) ==
    LET call == unwrap(inbound[c])
        r == client_for_shard(call.iface, unwrap(shard[c]), "connecting", FALSE)
    IN  /\ pc[c] \in {"lookup", "connecting", "awaiting"}
        /\ pc' = [pc EXCEPT ![c] = "abandoned"]
        /\ pools' = IF pc[c] = "connecting"
                    THEN [pools EXCEPT ![r.poolId] = r.pool]
                    ELSE pools
        /\ UNCHANGED <<internal_config, established, inbound, shard, client,
                       result, lookups, attempts, outbound, answered>>

\* The proxy with originators that may abandon their calls.
NextCancel ==
    \/ Next
    \/ \E c \in Calls : Abandon(c)

SpecCancel == Init /\ [][NextCancel]_vars

----------------------------------------------------------------------------
(* Properties.                                                             *)

Received(c) == inbound[c] # None
Req(c) == unwrap(inbound[c]).request
Iface(c) == unwrap(inbound[c]).iface
Done(c) == pc[c] = "done"

\* The payload carries no chain: bytes of no schema, or no chain id field.
Malformed(req) == req.content.chain = None

\* The address of the shard the shard map assigns to the request's chain.
AssignedAddress(req) == http_address(internal_config[unwrap(req.content.chain)])

\* The call's creation of a connection failed.
ConnectFailed(c) == Done(c) /\ attempts[c] = 1 /\ client[c] = None

\* The call's forward was answered.
Forwarded(c) == Done(c) /\ answered[c] # None

\* C1: a call whose payload carries a chain the shard map assigns to a
\* shard issues at most one outbound call, to that shard's address and to no
\* other, and a call that was forwarded returns what the shard answered.
C1_ForwardsToAssignedShard ==
    \A c \in Calls :
       Received(c) /\ chain_id(Req(c)) # None =>
          /\ Len(outbound[c]) <= 1
          /\ \A i \in 1..Len(outbound[c]) :
                outbound[c][i].address = AssignedAddress(Req(c))
          /\ pc[c] = "awaiting" => Len(outbound[c]) = 1
          /\ Done(c) /\ ~ConnectFailed(c) =>
                /\ Len(outbound[c]) = 1
                /\ answered[c] # None
                /\ result[c] = answered[c]

\* A query-chain-info call on chain c2, forwarded to shardB, has returned
\* the shard's response.
C1_Witness ==
    \E c \in Calls :
       /\ Done(c)
       /\ unwrap(inbound[c]).handler = "handle_chain_info_query"
       /\ chain_id(Req(c)) = Some("c2")
       /\ Len(outbound[c]) = 1
       /\ outbound[c][1].address = http_address(ShardB)
       /\ result[c] = Some(Response("chain info"))

\* C2: a call whose payload is malformed ends at once with a not_found
\* Status; no pool was asked for a client, no connection was attempted and
\* no outbound call was issued for it.
C2_MalformedIsNoRoute ==
    \A c \in Calls :
       Received(c) /\ Malformed(Req(c)) =>
          /\ Done(c)
          /\ result[c] # None
          /\ unwrap(result[c]).tag = "Err"
          /\ unwrap(result[c]).code = "NotFound"
          /\ lookups[c] = 0
          /\ attempts[c] = 0
          /\ client[c] = None
          /\ outbound[c] = <<>>
          /\ answered[c] = None

\* A chain-info query without a chain id field and a proposal of garbage
\* bytes have both ended, while no pool holds or creates anything.
C2_Witness ==
    /\ \E c \in Calls :
          /\ Done(c)
          /\ unwrap(inbound[c]).handler = "handle_chain_info_query"
          /\ Req(c).content = Absent
    /\ \E c \in Calls :
          /\ Done(c)
          /\ unwrap(inbound[c]).handler = "handle_block_proposal"
          /\ Req(c).content = Garbage
    /\ \A p \in PoolIds : pools[p] = EmptyPool

\* The pool an interface's calls take their clients from.
PoolOf(iface) ==
    IF iface = "worker" THEN new.worker_connection_pool ELSE new.node_connection_pool

\* The clients a pool holds.
ClientsIn(p) == {pools[p].entries[a] : a \in Addresses} \ {None}

\* C4: whatever the interleaving of the calls of one interface that
\* resolve to one address, at most one connection to it is established
\* for that interface.
C4_OneConnectionPerAddress ==
    \A i \in Ifaces, a \in Addresses : established[i][a] <= 1

\* Two calls of one interface to one shard: the second arrived while the
\* first was creating the connection and is still suspended; the first has
\* connected and forwarded, and one connection exists.
C4_Witness ==
    \E c, d \in Calls :
       /\ c # d
       /\ Received(c) /\ Received(d)
       /\ Iface(c) = Iface(d)
       /\ shard[c] = shard[d]
       /\ pc[c] = "awaiting" /\ attempts[c] = 1
       /\ pc[d] = "lookup"
       /\ established[Iface(c)][http_address(unwrap(shard[c]))] = 1

\* C5: a call whose connection failed ends with an internal Status and no
\* outbound call; the failure leaves nothing in the pool, neither an entry
\* nor a creation under way, so that the next call to the address creates
\* the connection again.
C5_ConnectFailureNotStored ==
    /\ \A c \in Calls :
          ConnectFailed(c) =>
             /\ result[c] # None
             /\ unwrap(result[c]).tag = "Err"
             /\ unwrap(result[c]).code = "Internal"
             /\ outbound[c] = <<>>
    /\ \A p \in PoolIds, a \in Addresses :
          /\ a \in pools[p].creating =>
                \E c \in Calls :
                   /\ pc[c] = "connecting"
                   /\ PoolOf(Iface(c)) = p
                   /\ http_address(unwrap(shard[c])) = a
          /\ pools[p].entries[a] # None =>
                \E i \in Ifaces : PoolOf(i) = p /\ established[i][a] >= 1

\* A call's connection to a shard failed, and a later call of the same
\* interface to the same shard created the connection and was answered.
C5_Witness ==
    \E c, d \in Calls :
       /\ c # d
       /\ ConnectFailed(c)
       /\ Done(d) /\ Iface(d) = Iface(c) /\ shard[d] = shard[c]
       /\ attempts[d] = 1
       /\ client[d] # None
       /\ result[d] = Some(Response("chain info"))

\* C6: the node pool and the worker pool hold no client in common, and a
\* call's client is held by its own interface's pool only.
C6_PoolsDisjoint ==
    /\ ClientsIn(new.node_connection_pool) \cap ClientsIn(new.worker_connection_pool) = {}
    /\ \A c \in Calls :
          client[c] # None =>
             \A i \in Ifaces :
                client[c] \in ClientsIn(PoolOf(i)) <=> i = Iface(c)

\* Both pools hold a client for shardA, each taken by a call.
C6_Witness ==
    /\ pools[new.node_connection_pool].entries[http_address(ShardA)] # None
    /\ pools[new.worker_connection_pool].entries[http_address(ShardA)] # None
    /\ \E c, d \in Calls :
          /\ client[c] # None /\ client[d] # None
          /\ Iface(c) = "worker" /\ Iface(d) = "node"
          /\ shard[c] = shard[d]

\* C7: when the shard answers with an error, the call returns that very
\* Status: same class, same message, and not a response.
C7_ShardErrorRelayed ==
    \A c \in Calls :
       Forwarded(c) /\ unwrap(answered[c]).tag = "Err" =>
          /\ result[c] = answered[c]
          /\ unwrap(result[c]).tag = "Err"
          /\ unwrap(result[c]).code = unwrap(answered[c]).code
          /\ unwrap(result[c]).message = unwrap(answered[c]).message

\* A forwarded call was answered with a Status and has returned.
C7_Witness ==
    \E c \in Calls :
       /\ Forwarded(c)
       /\ unwrap(answered[c]).tag = "Err"
       /\ Len(outbound[c]) = 1

\* C8: no call asks a pool more than once, starts more than one connection
\* or issues more than one outbound call.
C8_NoRetry ==
    \A c \in Calls :
       /\ lookups[c] <= 1
       /\ attempts[c] <= 1
       /\ Len(outbound[c]) <= 1

\* One call has ended on a failed connection and another on a shard's
\* error; each made one lookup.
C8_Witness ==
    \E c, d \in Calls :
       /\ ConnectFailed(c) /\ lookups[c] = 1
       /\ Forwarded(d) /\ unwrap(answered[d]).tag = "Err" /\ lookups[d] = 1

\* The three places where a call ends.
EndedNoRoute(c) ==
    /\ shard[c] = None /\ lookups[c] = 0 /\ attempts[c] = 0
    /\ client[c] = None /\ outbound[c] = <<>> /\ answered[c] = None
    /\ unwrap(result[c]).tag = "Err" /\ unwrap(result[c]).code = "NotFound"

EndedUnreachable(c) ==
    /\ shard[c] # None /\ lookups[c] = 1 /\ attempts[c] = 1
    /\ client[c] = None /\ outbound[c] = <<>> /\ answered[c] = None
    /\ unwrap(result[c]).tag = "Err" /\ unwrap(result[c]).code = "Internal"

EndedForwarded(c) ==
    /\ shard[c] # None /\ lookups[c] = 1
    /\ client[c] # None
    /\ Len(outbound[c]) = 1
    /\ outbound[c][1].address = http_address(unwrap(shard[c]))
    /\ answered[c] # None
    /\ result[c] = answered[c]

\* C9 as stated: what a caller receives tells how far the call got.  A
\* not_found Status is the outcome of a call that contacted no shard, an
\* internal Status that of a call whose connection failed, and anything
\* else that of a forwarded call.
C9_OutcomeTellsStage ==
    \A c \in Calls :
       Done(c) =>
          /\ unwrap(result[c]).code = "NotFound" <=> EndedNoRoute(c)
          /\ unwrap(result[c]).code = "Internal" <=> EndedUnreachable(c)
          /\ unwrap(result[c]).code \notin {"NotFound", "Internal"} <=> EndedForwarded(c)

\* C9, amended: a completed call ended in exactly one of the three places,
\* and the place decides what it returned: not_found where no shard was
\* contacted, internal where the connection failed, and the shard's own
\* answer, whatever its class, where the call was forwarded.
C9_StageDecidesOutcome ==
    \A c \in Calls :
       Done(c) =>
          /\ result[c] # None
          /\ EndedNoRoute(c) \/ EndedUnreachable(c) \/ EndedForwarded(c)
          /\ ~(EndedNoRoute(c) /\ EndedUnreachable(c))
          /\ ~(EndedNoRoute(c) /\ EndedForwarded(c))
          /\ ~(EndedUnreachable(c) /\ EndedForwarded(c))

\* A forwarded call has returned the not_found Status its shard answered,
\* next to a call that ended with no route.
C9_Witness ==
    \E c, d \in Calls :
       /\ Done(c) /\ EndedForwarded(c)
       /\ unwrap(result[c]).code = "NotFound"
       /\ Done(d) /\ EndedNoRoute(d)

\* C10: the shard map never changes, and two calls that carry the same
\* chain are resolved to the same shard, whatever happened between them.
C10_ResolutionDeterministic ==
    /\ internal_config = ShardMap
    /\ \A c, d \in Calls :
          /\ Received(c) /\ Received(d)
          /\ chain_id(Req(c)) # None
          /\ chain_id(Req(c)) = chain_id(Req(d))
          => /\ shard[c] # None
             /\ shard[c] = shard[d]

\* Two calls carrying chain c2 in different requests, on different
\* interfaces, were resolved, a connection having been made in between.
C10_Witness ==
    \E c, d \in Calls :
       /\ Received(c) /\ Received(d)
       /\ chain_id(Req(c)) = Some("c2") /\ chain_id(Req(d)) = Some("c2")
       /\ Req(c).type # Req(d).type
       /\ Iface(c) # Iface(d)
       /\ lookups[c] = 1 /\ lookups[d] = 1
       /\ client[c] # None /\ pc[d] = "connecting"

\* C11: a step that changes a pool is a step of a call of that pool's
\* interface, and a call that gets its client gets the one its own
\* interface's pool holds for the call's shard; worker calls never take a
\* client from the node pool, nor node calls from the worker pool.
C11_ClientFromOwnPool ==
    [][/\ \A p \in PoolIds :
             pools'[p] # pools[p] =>
                \E c \in Calls :
                   /\ pc'[c] # pc[c]
                   /\ PoolOf(unwrap(inbound'[c]).iface) = p
       /\ \A c \in Calls :
             client'[c] # client[c] =>
                client'[c] = pools'[PoolOf(unwrap(inbound'[c]).iface)]
                                .entries[http_address(unwrap(shard'[c]))]]_vars

\* A cross-chain request on the worker interface and a certificate on the
\* node interface each hold a client, for different shards; each pool holds
\* the one entry its interface's call made.
C11_Witness ==
    \E c, d \in Calls :
       /\ Received(c) /\ Received(d)
       /\ Iface(c) = "worker" /\ Iface(d) = "node"
       /\ unwrap(inbound[c]).handler = "handle_cross_chain_request"
       /\ unwrap(inbound[d]).handler = "handle_certificate"
       /\ client[c] # None /\ client[d] # None
       /\ pools["pool2"].entries[http_address(ShardB)] = client[c]
       /\ pools["pool2"].entries[http_address(ShardA)] = None
       /\ pools["pool1"].entries[http_address(ShardA)] = client[d]
       /\ pools["pool1"].entries[http_address(ShardB)] = None

\* C12: every outbound call has the method of the inbound call it serves and
\* carries that call's request unchanged, and an outbound
\* handle_cross_chain_request serves a call received on the worker interface.
C12_SameMethodSameRequest ==
    \A c \in Calls :
       \A i \in DOMAIN outbound[c] :
          /\ outbound[c][i].handler = unwrap(inbound[c]).handler
          /\ outbound[c][i].request = Req(c)
          /\ outbound[c][i].handler = "handle_cross_chain_request"
                => Iface(c) = "worker"

\* A cross-chain request received on the worker interface was forwarded, and
\* a block proposal received on the node interface was forwarded.
C12_Witness ==
    \E c, d \in Calls :
       /\ Received(c) /\ Received(d)
       /\ Iface(c) = "worker" /\ Iface(d) = "node"
       /\ unwrap(inbound[c]).handler = "handle_cross_chain_request"
       /\ unwrap(inbound[d]).handler = "handle_block_proposal"
       /\ Len(outbound[c]) = 1 /\ Len(outbound[d]) = 1
       /\ outbound[c][1].handler = "handle_cross_chain_request"

\* C13: the steps of a call happen in order, each after the ones before it
\* succeeded: a shard is resolved only for an extracted chain id, the pool is
\* asked only for a resolved shard, a client is held only after a lookup and
\* is the one for the resolved shard's address, a forward is issued only on
\* the client the pool returned, and an answer is relayed only for a forward.
C13_StepsInOrder ==
    \A c \in Calls :
       /\ shard[c] # None => Received(c) /\ chain_id(Req(c)) # None
       /\ lookups[c] > 0 => shard[c] # None
       /\ attempts[c] > 0 => lookups[c] > 0
       /\ client[c] # None =>
             /\ lookups[c] > 0
             /\ unwrap(client[c]).address = http_address(unwrap(shard[c]))
       /\ outbound[c] # <<>> =>
             /\ client[c] # None
             /\ \A i \in DOMAIN outbound[c] :
                   outbound[c][i].address = unwrap(client[c]).address
       /\ answered[c] # None => outbound[c] # <<>>
       /\ result[c] # None =>
             \/ shard[c] = None
             \/ lookups[c] > 0 /\ client[c] = None /\ outbound[c] = <<>>
             \/ answered[c] # None

\* One call went through all five steps, creating its connection on the way,
\* while another stopped at the extraction and never asked the pool.
C13_Witness ==
    \E c, d \in Calls :
       /\ Done(c) /\ Done(d)
       /\ attempts[c] = 1 /\ Len(outbound[c]) = 1 /\ answered[c] # None
       /\ result[c] = answered[c]
       /\ chain_id(Req(d)) = None /\ shard[d] = None /\ lookups[d] = 0
       /\ outbound[d] = <<>>

\* The addresses a pool is creating connections for on behalf of calls that
\* have not ended.
HeldCreations(p) ==
    {http_address(unwrap(shard'[c])) :
        c \in {d \in Calls : pc'[d] = "connecting" /\ PoolOf(Iface(d)') = p}}

\* C14: a call leaves nothing behind but a connection cached in its own
\* interface's pool.  A step changes a pool's entries only when a call of
\* that pool's interface has connected, and then only the entry for the
\* call's shard; a step on which a call ends without a client (no route, or
\* the shard unreachable) leaves the entries of both pools as they were, a
\* call that ends with no route leaves both pools untouched, a pool keeps no
\* creation mark of a call that has ended, no step changes the other
\* interface's pool, and the shard map does not change.
C14_NothingLeftBehind ==
    [][/\ internal_config' = internal_config
       /\ \A p \in PoolIds :
             /\ pools'[p].entries # pools[p].entries =>
                   \E c \in Calls :
                      /\ pc[c] = "connecting" /\ pc'[c] = "awaiting"
                      /\ PoolOf(Iface(c)) = p
                      /\ \A a \in Addresses :
                            a # http_address(unwrap(shard[c])) =>
                               pools'[p].entries[a] = pools[p].entries[a]
             /\ pools'[p].creating = HeldCreations(p)
             /\ pools'[p] # pools[p] =>
                   \E c \in Calls : pc'[c] # pc[c] /\ PoolOf(Iface(c)') = p
       /\ \A c \in Calls :
             pc[c] # "done" /\ pc'[c] = "done" /\ client'[c] = None =>
                /\ \A p \in PoolIds : pools'[p].entries = pools[p].entries
                /\ pc[c] = "idle" => pools' = pools]_vars

\* A worker call ended because its shard was unreachable and a node call
\* ended with no route; both pools are as they were made.
C14_Witness ==
    \E c, d \in Calls :
       /\ Done(c) /\ Iface(c) = "worker" /\ EndedUnreachable(c)
       /\ Done(d) /\ Iface(d) = "node" /\ EndedNoRoute(d)
       /\ \A p \in PoolIds : pools[p] = EmptyPool

\* C15: a pool entry is never removed or replaced: a pool that holds a
\* handle for an address holds the same handle after every step, whether
\* the step connects, relays a shard's error or abandons a call.
C15_EntriesPersist ==
    [][\A p \in PoolIds, a \in Addresses :
          pools[p].entries[a] # None =>
             pools'[p].entries[a] = pools[p].entries[a]]_vars

\* A handle outlived both: one call that used it relayed the shard's error,
\* the call that created it was abandoned while its forward was in flight,
\* and the pool still holds the handle.
C15_Witness ==
    \E c, d \in Calls :
       /\ c # d
       /\ pc[c] = "abandoned" /\ attempts[c] = 1 /\ client[c] # None
       /\ Len(outbound[c]) = 1 /\ result[c] = None
       /\ Forwarded(d) /\ unwrap(answered[d]).tag = "Err"
       /\ client[d] = client[c]
       /\ pools[PoolOf(Iface(c))].entries[unwrap(client[c]).address] = client[c]

\* C16: forwards on one cached handle are not serialized.  Whenever two
\* calls wait for the answers to forwards issued on the same handle, each of
\* them can be answered and return while the other still waits, so a forward
\* that is never answered holds back only its own call.
C16_ForwardsNotSerialized ==
    \A c, d \in Calls :
       (/\ c # d
        /\ pc[c] = "awaiting" /\ pc[d] = "awaiting"
        /\ client[c] = client[d])
          => \A answer \in ShardResults :
                ENABLED (Proxy_Relay(c, answer) /\ pc'[d] = "awaiting")

\* Two calls on the same interface for the same shard each have a forward
\* in flight on the one handle the pool holds.
C16_Witness ==
    \E c, d \in Calls :
       /\ c # d
       /\ pc[c] = "awaiting" /\ pc[d] = "awaiting"
       /\ client[c] # None /\ client[c] = client[d]
       /\ Len(outbound[c]) = 1 /\ Len(outbound[d]) = 1
       /\ answered[c] = None /\ answered[d] = None

\* C17: pool operations on different addresses do not block one another.
\* While a call is establishing the connection to one address, a call of the
\* same interface for another address, one that is not being connected to
\* itself, can be started without having to wait,
\* one that is establishing its own connection can finish and hold its
\* client, and one that waited for a creation that is over can look again
\* without waiting; the first call is still establishing afterwards.
C17_AddressesIndependent ==
    \A c, d \in Calls :
       (c # d /\ pc[c] = "connecting") =>
          /\ pc[d] = "idle" =>
                \A handler \in DOMAIN Service(Iface(c)) :
                   \A req \in Service(Iface(c))[handler] :
                      (/\ shard_for(req) # None /\ shard_for(req) # shard[c]
                       /\ http_address(unwrap(shard_for(req)))
                             \notin pools[PoolOf(Iface(c))].creating) =>
                         ENABLED (/\ Proxy_Start(d, Iface(c), handler, req)
                                  /\ pc'[d] \in {"connecting", "awaiting"}
                                  /\ pc'[c] = "connecting")
          /\ (/\ pc[d] = "connecting"
              /\ Iface(d) = Iface(c) /\ shard[d] # shard[c]) =>
                ENABLED (/\ Proxy_Client(d, TRUE)
                         /\ pc'[d] = "awaiting" /\ client'[d] # None
                         /\ pc'[c] = "connecting")
          /\ (/\ pc[d] = "lookup"
              /\ Iface(d) = Iface(c) /\ shard[d] # shard[c]
              /\ http_address(unwrap(shard[d]))
                    \notin pools[PoolOf(Iface(d))].creating) =>
                ENABLED (/\ Proxy_Client(d, FALSE)
                         /\ pc'[d] \in {"connecting", "awaiting"}
                         /\ pc'[c] = "connecting")

\* Two calls of one interface are each establishing a connection, to
\* different addresses, in the same pool.
C17_Witness ==
    \E c, d \in Calls :
       /\ c # d
       /\ pc[c] = "connecting" /\ pc[d] = "connecting"
       /\ Iface(c) = Iface(d) /\ shard[c] # shard[d]
       /\ pools[PoolOf(Iface(c))].creating
             = {http_address(unwrap(shard[c])), http_address(unwrap(shard[d]))}

\* C18: shard_for gives no shard exactly when chain_id gives no chain id;
\* every chain id has a shard.  So a call ends before the pool is asked, with
\* Status::not_found, exactly when no chain id could be extracted from its
\* request, and every other call has a shard of the shard map resolved.
C18_NoRouteIffNoKey ==
    \A c \in Calls :
       Received(c) =>
          /\ shard_for(Req(c)) = None <=> chain_id(Req(c)) = None
          /\ shard[c] = None <=> chain_id(Req(c)) = None
          /\ shard[c] # None => unwrap(shard[c]) \in Shards
          /\ (Done(c) /\ lookups[c] = 0) <=> chain_id(Req(c)) = None
          /\ (Done(c) /\ lookups[c] = 0) => result[c] = Some(Status_not_found)

\* A chain info query without a chain id ended with no route, and a call
\* whose chain id was extracted has its shard and did not end that way, though
\* it ended with an error too.
C18_Witness ==
    \E c, d \in Calls :
       /\ Received(c) /\ Req(c).content = Absent
       /\ Done(c) /\ EndedNoRoute(c)
       /\ Received(d) /\ chain_id(Req(d)) = Some("c2")
       /\ shard[d] = Some(ShardB)
       /\ Done(d) /\ EndedUnreachable(d)

\* C19: under fair scheduling, with connection attempts that succeed or
\* fail and shards that answer, every call that was received returns a
\* result; in particular a call that waits for another call's connection
\* attempt does not wait forever.
C19_EveryCallReturns ==
    \A c \in Calls : Received(c) ~> (Done(c) /\ result[c] # None)

\* A call waits in the pool while another call of the same interface is
\* establishing the connection to the same shard.
C19_Witness ==
    \E c, d \in Calls :
       /\ c # d
       /\ pc[c] = "lookup" /\ pc[d] = "connecting"
       /\ Iface(c) = Iface(d) /\ shard[c] = shard[d]
       /\ result[c] = None /\ result[d] = None

====
